---- MODULE Spec2Model ----
(***************************************************************************)
(* A model of chafa's ChafaSymbolMap (chafa/chafa-symbol-map.c): the       *)
(* selection of catalog symbols kept in a hash table of catalog indices,   *)
(* the lazily rebuilt sorted symbol array, the tag selector parser and the *)
(* atomic reference count.                                                 *)
(*                                                                         *)
(* C strings are sequences of one-character strings with an implicit NUL   *)
(* after the last element; a pointer into a string is a 1-based position.  *)
(* A GHashTable is a cell of `heap`, addressed by a positive number; the   *)
(* null pointer is NULL.  ChafaSymbolTags bitmasks are sets of flag names, *)
(* so that (a & b) != 0 is a non-empty intersection.                       *)
(***************************************************************************)
EXTENDS Integers, Sequences, FiniteSets, TLC

VARIABLES
    maps,       \* slot -> ChafaSymbolMap struct (or unallocated storage)
    heap,       \* address -> key set of a live GHashTable
    last,       \* the last API call: its name, map, return value and GError
    arg,        \* the argument of the last call (tags, selector string, codepoint)
    crashed,    \* the process was aborted by an invalid memory access
    pc,         \* per thread: position inside chafa_symbol_map_ref / _unref
    seen,       \* per thread: the local `refs` read by g_atomic_int_get
    owns,       \* per thread: number of references the thread holds
    destroyed   \* how many times deinit + g_free ran on the shared map

vars == <<maps, heap, last, arg, crashed, pc, seen, owns, destroyed>>

NULL == 0
NUL == "NUL"

-----------------------------------------------------------------------------
(* Characters and the C string helpers the parser uses.                    *)

Str_lower == <<"a","b","c","d","e","f","g","h","i","j","k","l","m",
               "n","o","p","q","r","s","t","u","v","w","x","y","z">>
Str_upper == <<"A","B","C","D","E","F","G","H","I","J","K","L","M",
               "N","O","P","Q","R","S","T","U","V","W","X","Y","Z">>

Range(s) == { s[i] : i \in DOMAIN s }

\* the accept string of the strspn call that measures a tag name
Letters == Range(Str_lower) \cup Range(Str_upper)
Separators == {" ", ","}

\* *(s + i - 1): the character at position i, NUL at and past the terminator
CharAt(s, i) == IF i \in DOMAIN s THEN s[i] ELSE NUL

UpperChars == Range(Str_upper)
LowerChars == Range(Str_lower)

\* the lower-case letter of each upper-case one
LowerOf == [c \in UpperChars |->
               Str_lower[CHOOSE i \in DOMAIN Str_upper : Str_upper[i] = c]]

g_ascii_tolower(c) == IF c \in UpperChars THEN LowerOf[c] ELSE c

\* strspn (s + p - 1, accept)
RECURSIVE strspn(_, _, _)
strspn(s, p, accept) ==
    IF CharAt(s, p) \in accept THEN 1 + strspn(s, p + 1, accept) ELSE 0

\* g_ascii_strncasecmp (s1, s2 + p - 1, n) == 0, for a NUL-terminated s1:
\* at most n characters are compared, and the comparison ends at s1's NUL
RECURSIVE strncasecmp_eq(_, _, _, _, _)
strncasecmp_eq(s1, s2, p, n, i) ==
    IF i > n THEN TRUE
    ELSE LET c1 == g_ascii_tolower(CharAt(s1, i))
             c2 == g_ascii_tolower(CharAt(s2, p + i - 1))
         IN  IF c1 # c2 THEN FALSE
             ELSE IF c1 = NUL THEN TRUE
             ELSE strncasecmp_eq(s1, s2, p, n, i + 1)

g_ascii_strncasecmp_is0(s1, s2, p, n) == strncasecmp_eq(s1, s2, p, n, 1)

-----------------------------------------------------------------------------
(* ChafaSymbolTags and the symbol catalog (chafa.h, chafa-symbols.c).      *)

CHAFA_SYMBOL_TAG_NONE     == {}
CHAFA_SYMBOL_TAG_SPACE    == {"SPACE"}
CHAFA_SYMBOL_TAG_SOLID    == {"SOLID"}
CHAFA_SYMBOL_TAG_STIPPLE  == {"STIPPLE"}
CHAFA_SYMBOL_TAG_BLOCK    == {"BLOCK"}
CHAFA_SYMBOL_TAG_BORDER   == {"BORDER"}
CHAFA_SYMBOL_TAG_DIAGONAL == {"DIAGONAL"}
CHAFA_SYMBOL_TAG_DOT      == {"DOT"}
CHAFA_SYMBOL_TAG_QUAD     == {"QUAD"}
CHAFA_SYMBOL_TAG_HHALF    == {"HHALF"}
CHAFA_SYMBOL_TAG_VHALF    == {"VHALF"}
CHAFA_SYMBOL_TAG_HALF     == CHAFA_SYMBOL_TAG_HHALF \cup CHAFA_SYMBOL_TAG_VHALF
CHAFA_SYMBOL_TAG_INVERTED == {"INVERTED"}
CHAFA_SYMBOL_TAG_BRAILLE  == {"BRAILLE"}
CHAFA_SYMBOL_TAG_ALL ==
    {"SPACE", "SOLID", "STIPPLE", "BLOCK", "BORDER", "DIAGONAL", "DOT",
     "QUAD", "HHALF", "VHALF", "INVERTED", "BRAILLE"}

\* the global symbol table, ended by an entry with c = 0; chafa_symbols [i]
\* of the C code is chafa_symbols_tab[i + 1]
chafa_symbols_tab ==
    << [c |-> 9600, sc |-> {"BLOCK", "VHALF"}],      \* U+2580 upper half block
       [c |-> 32,   sc |-> {"SPACE"}],               \* U+0020 space
       [c |-> 9585, sc |-> {"BORDER", "DIAGONAL"}],  \* U+2571 diagonal
       [c |-> 9476, sc |-> {"BORDER", "DOT"}],       \* U+2504 dashed line
       [c |-> 9617, sc |-> {"STIPPLE"}],             \* U+2591 light shade
       [c |-> 0,    sc |-> {}] >>

chafa_symbols(i) == chafa_symbols_tab[i + 1]

\* every index before the terminating entry
CatalogIdx == 0 .. (Len(chafa_symbols_tab) - 2)

Codepoints == { chafa_symbols(i).c : i \in CatalogIdx }

-----------------------------------------------------------------------------
(* parse_symbol_tag: the name table and its lookup.                        *)

SymMapping ==
    << [name |-> <<"a","l","l">>,                      sc |-> CHAFA_SYMBOL_TAG_ALL],
       [name |-> <<"n","o","n","e">>,                  sc |-> CHAFA_SYMBOL_TAG_NONE],
       [name |-> <<"s","p","a","c","e">>,              sc |-> CHAFA_SYMBOL_TAG_SPACE],
       [name |-> <<"s","o","l","i","d">>,              sc |-> CHAFA_SYMBOL_TAG_SOLID],
       [name |-> <<"s","t","i","p","p","l","e">>,      sc |-> CHAFA_SYMBOL_TAG_STIPPLE],
       [name |-> <<"b","l","o","c","k">>,              sc |-> CHAFA_SYMBOL_TAG_BLOCK],
       [name |-> <<"b","o","r","d","e","r">>,          sc |-> CHAFA_SYMBOL_TAG_BORDER],
       [name |-> <<"d","i","a","g","o","n","a","l">>,  sc |-> CHAFA_SYMBOL_TAG_DIAGONAL],
       [name |-> <<"d","o","t">>,                      sc |-> CHAFA_SYMBOL_TAG_DOT],
       [name |-> <<"q","u","a","d">>,                  sc |-> CHAFA_SYMBOL_TAG_QUAD],
       [name |-> <<"h","a","l","f">>,                  sc |-> CHAFA_SYMBOL_TAG_HALF],
       [name |-> <<"h","h","a","l","f">>,              sc |-> CHAFA_SYMBOL_TAG_HHALF],
       [name |-> <<"v","h","a","l","f">>,              sc |-> CHAFA_SYMBOL_TAG_VHALF],
       [name |-> <<"i","n","v","e","r","t","e","d">>,  sc |-> CHAFA_SYMBOL_TAG_INVERTED],
       [name |-> <<"b","r","a","i","l","l","e">>,      sc |-> CHAFA_SYMBOL_TAG_BRAILLE] >>

\* the loop over map []: the first entry whose name compares equal over len
\* characters; [ok |-> FALSE] is the g_set_error "Unrecognized symbol tag"
RECURSIVE parse_symbol_tag_from(_, _, _, _)
parse_symbol_tag_from(s, p, len, i) ==
    IF i > Len(SymMapping) THEN [ok |-> FALSE, sc |-> {}]
    ELSE IF g_ascii_strncasecmp_is0(SymMapping[i].name, s, p, len)
         THEN [ok |-> TRUE, sc |-> SymMapping[i].sc]
         ELSE parse_symbol_tag_from(s, p, len, i + 1)

\* parse_symbol_tag (s + p - 1, len, &sc, error)
parse_symbol_tag(s, p, len) == parse_symbol_tag_from(s, p, len, 1)

-----------------------------------------------------------------------------
(* GHashTable cells.  A table is live while its address is in DOMAIN h.    *)

\* the address g_hash_table_new returns: one no live table has
NewAddr(h) ==
    CHOOSE a \in 1 .. (Cardinality(DOMAIN h) + 1) :
        /\ a \notin DOMAIN h
        /\ \A b \in 1 .. (Cardinality(DOMAIN h) + 1) : b \notin DOMAIN h => a <= b

g_hash_table_new(h) ==
    LET a == NewAddr(h)
    IN  [heap |-> [x \in DOMAIN h \cup {a} |-> IF x = a THEN {} ELSE h[x]],
         ptr  |-> a]

\* the tables of this model are never shared, so one unref frees the table
g_hash_table_unref(h, p) == [x \in DOMAIN h \ {p} |-> h[x]]

Keys(h, p) == IF p \in DOMAIN h THEN h[p] ELSE {}

\* g_return_val_if_fail (hash_table != NULL, 0)
g_hash_table_size(h, p) == IF p = NULL THEN 0 ELSE Cardinality(Keys(h, p))

SetKeys(h, p, ks) == [x \in DOMAIN h |-> IF x = p THEN ks ELSE h[x]]

\* a loop that adds an entry only when its tags equal the requested ones
RECURSIVE add_by_tags_from_exact(_, _, _)
add_by_tags_from_exact(ks, tags, i) ==
    IF chafa_symbols(i).c = 0 THEN ks
    ELSE add_by_tags_from_exact(IF chafa_symbols(i).sc = tags
                                THEN ks \cup {i} ELSE ks,
                                tags, i + 1)

\* a loop that adds every entry of the catalog, whatever its tags
RECURSIVE add_by_tags_from_all(_, _, _)
add_by_tags_from_all(ks, tags, i) ==
    IF chafa_symbols(i).c = 0 THEN ks
    ELSE add_by_tags_from_all(ks \cup {i}, tags, i + 1)

\* the loop of add_by_tags from index i on
RECURSIVE add_by_tags_from(_, _, _)
add_by_tags_from(ks, tags, i) ==
    IF chafa_symbols(i).c = 0 THEN ks
    ELSE add_by_tags_from(IF chafa_symbols(i).sc \cap tags # {}
                          THEN ks \cup {i} ELSE ks,
                          tags, i + 1)

add_by_tags(h, sym_ht, tags) ==
    SetKeys(h, sym_ht, add_by_tags_from(Keys(h, sym_ht), tags, 0))

\* a loop that removes an entry only when all its tags are requested
RECURSIVE remove_by_tags_from_subset(_, _, _)
remove_by_tags_from_subset(ks, tags, i) ==
    IF chafa_symbols(i).c = 0 THEN ks
    ELSE remove_by_tags_from_subset(IF chafa_symbols(i).sc \subseteq tags
                                    THEN ks \ {i} ELSE ks,
                                    tags, i + 1)

\* the loop of remove_by_tags from index i on
RECURSIVE remove_by_tags_from(_, _, _)
remove_by_tags_from(ks, tags, i) ==
    IF chafa_symbols(i).c = 0 THEN ks
    ELSE remove_by_tags_from(IF chafa_symbols(i).sc \cap tags # {}
                             THEN ks \ {i} ELSE ks,
                             tags, i + 1)

remove_by_tags(h, sym_ht, tags) ==
    SetKeys(h, sym_ht, remove_by_tags_from(Keys(h, sym_ht), tags, 0))

\* What iterating a GHashTableIter that g_hash_table_iter_init (&iter, NULL)
\* left uninitialised can do: abort the process, or walk whatever the stale
\* stack slot designates and yield some keys (none, when it designates a
\* finished iteration).
IterGarbage ==
    { [crash |-> TRUE, keys |-> {}] } \cup
    { [crash |-> FALSE, keys |-> ks] : ks \in SUBSET CatalogIdx }

\* a shallow "copy" that hands back the source table itself
copy_hash_table_alias(h, src, ub) ==
    [heap |-> h, ptr |-> src, crash |-> FALSE, ub |-> FALSE]

\* copy_hash_table (src); ub is the outcome taken if src is NULL
copy_hash_table(h, src, ub) ==
    LET d == g_hash_table_new(h)
    IN  IF src = NULL
        THEN [heap  |-> SetKeys(d.heap, d.ptr, ub.keys), ptr |-> d.ptr,
              crash |-> ub.crash, ub |-> TRUE]
        ELSE [heap  |-> SetKeys(d.heap, d.ptr, Keys(h, src)), ptr |-> d.ptr,
              crash |-> FALSE, ub |-> FALSE]

-----------------------------------------------------------------------------
(* The derived symbol array.                                               *)

\* a comparison with the two results swapped: it sorts descending
compare_symbols_swapped(a, b) == ~(a.c < b.c)

\* compare_symbols (a, b) < 0 or == 0: a does not sort after b
compare_symbols_le(a, b) == ~(a.c > b.c)

\* the hash table iteration of rebuild_symbols: the keys in table order
\* (g_direct_hash places small integers by value)
RECURSIVE IterKeys(_)
IterKeys(ks) ==
    IF ks = {} THEN <<>>
    ELSE LET k == CHOOSE x \in ks : \A y \in ks : x <= y
         IN  <<k>> \o IterKeys(ks \ {k})

RECURSIVE InsertSorted(_, _)
InsertSorted(sorted, e) ==
    IF sorted = <<>> THEN <<e>>
    ELSE IF compare_symbols_le(e, Head(sorted)) THEN <<e>> \o sorted
    ELSE <<Head(sorted)>> \o InsertSorted(Tail(sorted), e)

\* qsort (symbols, n_symbols, sizeof (ChafaSymbol), compare_symbols)
RECURSIVE qsort(_)
qsort(a) == IF a = <<>> THEN <<>> ELSE InsertSorted(qsort(Tail(a)), Head(a))

Sentinel == [c |-> 0, sc |-> {}]

\* rebuild_symbols (symbol_map): a fresh array of n_symbols + 1 entries
rebuild_symbols(sm, h) ==
    LET n    == g_hash_table_size(h, sm.desired_symbols)
        it   == IterKeys(Keys(h, sm.desired_symbols))
        syms == IF sm.desired_symbols # NULL
                THEN qsort([j \in 1 .. Len(it) |-> chafa_symbols(it[j])])
                ELSE <<>>
    IN  [sm EXCEPT !.n_symbols = n,
                   !.symbols = syms \o <<Sentinel>>,
                   !.need_rebuild = FALSE]

\* a prepare that rebuilds whether or not the array is stale
chafa_symbol_map_prepare_always(sm, h) == rebuild_symbols(sm, h)

\* whether chafa_symbol_map_prepare goes past its early return
prepare_rebuilds(sm) == sm.need_rebuild

\* chafa_symbol_map_prepare (symbol_map)
chafa_symbol_map_prepare(sm, h) ==
    IF ~sm.need_rebuild THEN sm ELSE rebuild_symbols(sm, h)

\* the scan of chafa_symbol_map_has_symbol from array index i (0-based) on;
\* oob is set when the scan reads symbols [i] outside the allocated array
RECURSIVE has_symbol_from(_, _, _)
has_symbol_from(sm, symbol, i) ==
    IF ~(i < sm.n_symbols) THEN [ret |-> FALSE, oob |-> FALSE]
    ELSE IF i + 1 > Len(sm.symbols) THEN [ret |-> FALSE, oob |-> TRUE]
    ELSE IF sm.symbols[i + 1].c = symbol THEN [ret |-> TRUE, oob |-> FALSE]
    ELSE IF sm.symbols[i + 1].c > symbol THEN [ret |-> FALSE, oob |-> FALSE]
    ELSE has_symbol_from(sm, symbol, i + 1)

chafa_symbol_map_has_symbol(sm, symbol) == has_symbol_from(sm, symbol, 0)

-----------------------------------------------------------------------------
(* The selector parser.                                                    *)

\* the copy made on first need by a signed clause
scratch_copy(h, new_syms, desired, ub) ==
    IF new_syms = NULL
    THEN copy_hash_table(h, desired, ub)
    ELSE [heap |-> h, ptr |-> new_syms, crash |-> FALSE, ub |-> FALSE]

\* One pass of the while loop of parse_selectors per call, from the state
\* st = [p0, is_add, is_remove, new_syms, heap, clauses, ub] on, until the
\* loop is left: exit is "commit" (loop ended or break), "syntax" or
\* "unrecognized" (goto out) or "crash".
RECURSIVE parse_loop(_, _, _, _)
parse_loop(desired, sel, st, ub) ==
    LET p1 == st.p0 + strspn(sel, st.p0, Separators)
        c  == CharAt(sel, p1)
        is_add    == IF c = "-" THEN FALSE ELSE IF c = "+" THEN TRUE ELSE st.is_add
        is_remove == IF c = "-" THEN TRUE ELSE IF c = "+" THEN FALSE ELSE st.is_remove
        p2 == IF c \in {"-", "+"} THEN p1 + 1 ELSE p1
        p3 == p2 + strspn(sel, p2, {" "})
        n  == strspn(sel, p3, Letters)
        tag == parse_symbol_tag(sel, p3, n)
        cp == scratch_copy(st.heap, st.new_syms, desired, ub)
        h1 == IF st.new_syms # NULL
              THEN g_hash_table_unref(st.heap, st.new_syms) ELSE st.heap
        fresh == g_hash_table_new(h1)
    IN  IF CharAt(sel, st.p0) = NUL THEN [st EXCEPT !.exit = "commit"]
        ELSE IF c = NUL THEN [st EXCEPT !.exit = "commit"]
        ELSE IF CharAt(sel, p3) = NUL THEN [st EXCEPT !.exit = "commit"]
        ELSE IF n = 0 THEN [st EXCEPT !.exit = "syntax"]
        ELSE IF ~tag.ok THEN [st EXCEPT !.exit = "unrecognized"]
        ELSE IF is_add \/ is_remove
        THEN IF cp.crash
             THEN [st EXCEPT !.exit = "crash", !.ub = TRUE]
             ELSE parse_loop(desired, sel,
                     [st EXCEPT !.p0 = p3 + n,
                                !.is_add = is_add,
                                !.is_remove = is_remove,
                                !.new_syms = cp.ptr,
                                !.heap = IF is_add
                                         THEN add_by_tags(cp.heap, cp.ptr, tag.sc)
                                         ELSE remove_by_tags(cp.heap, cp.ptr, tag.sc),
                                !.clauses = @ + 1,
                                !.ub = @ \/ cp.ub],
                     ub)
        ELSE parse_loop(desired, sel,
                [st EXCEPT !.p0 = p3 + n,
                           !.is_add = TRUE,
                           !.is_remove = FALSE,
                           !.new_syms = fresh.ptr,
                           !.heap = add_by_tags(fresh.heap, fresh.ptr, tag.sc),
                           !.clauses = @ + 1],
                ub)

\* a parse that starts in add mode, so that no clause ever resets
parse_run_relative(sm, h, selectors, ub) ==
    parse_loop(sm.desired_symbols, selectors,
               [p0 |-> 1, is_add |-> TRUE, is_remove |-> FALSE,
                new_syms |-> NULL, heap |-> h, clauses |-> 0,
                ub |-> FALSE, exit |-> "run"],
               ub)

\* the loop of parse_selectors run from the start of the string
parse_run(sm, h, selectors, ub) ==
    parse_loop(sm.desired_symbols, selectors,
               [p0 |-> 1, is_add |-> FALSE, is_remove |-> FALSE,
                new_syms |-> NULL, heap |-> h, clauses |-> 0,
                ub |-> FALSE, exit |-> "run"],
               ub)

\* the code after the loop with need_rebuild set before out: is reached on
\* every path
parse_finish_dirty(sm, h, st, commit) ==
    LET error == IF st.exit \in {"syntax", "unrecognized"} THEN st.exit ELSE "none"
    IN  IF st.exit = "crash"
        THEN [sm |-> sm, heap |-> h, result |-> TRUE, error |-> error,
              crash |-> TRUE, ub |-> TRUE, clauses |-> st.clauses]
        ELSE IF commit
        THEN [sm |-> [sm EXCEPT !.desired_symbols = st.new_syms,
                                !.need_rebuild = TRUE],
              heap |-> IF sm.desired_symbols # NULL
                       THEN g_hash_table_unref(st.heap, sm.desired_symbols)
                       ELSE st.heap,
              result |-> TRUE, error |-> error,
              crash |-> FALSE, ub |-> st.ub, clauses |-> st.clauses]
        ELSE [sm |-> [sm EXCEPT !.need_rebuild = TRUE],
              heap |-> IF st.new_syms # NULL
                       THEN g_hash_table_unref(st.heap, st.new_syms)
                       ELSE st.heap,
              result |-> TRUE, error |-> error,
              crash |-> FALSE, ub |-> st.ub, clauses |-> st.clauses]

\* The code after the loop.  With commit, the scratch table replaces the
\* map's table and need_rebuild is set; otherwise (out:) the scratch table
\* is dropped.  The return value is the `result` local, initialised to TRUE
\* and assigned TRUE again before out:.
parse_finish(sm, h, st, commit) ==
    LET result == TRUE
        error  == IF st.exit \in {"syntax", "unrecognized"} THEN st.exit ELSE "none"
    IN  IF st.exit = "crash"
        THEN [sm |-> sm, heap |-> h, result |-> result, error |-> error,
              crash |-> TRUE, ub |-> TRUE, clauses |-> st.clauses]
        ELSE IF commit
        THEN [sm |-> [sm EXCEPT !.desired_symbols = st.new_syms,
                                !.need_rebuild = TRUE],
              heap |-> IF sm.desired_symbols # NULL
                       THEN g_hash_table_unref(st.heap, sm.desired_symbols)
                       ELSE st.heap,
              result |-> TRUE, error |-> error,
              crash |-> FALSE, ub |-> st.ub, clauses |-> st.clauses]
        ELSE [sm |-> sm,
              heap |-> IF st.new_syms # NULL
                       THEN g_hash_table_unref(st.heap, st.new_syms)
                       ELSE st.heap,
              result |-> result, error |-> error,
              crash |-> FALSE, ub |-> st.ub, clauses |-> st.clauses]

\* a parser whose error exits fall through to the commit
parse_selectors_partial(sm, h, selectors, ub) ==
    parse_finish(sm, h, parse_run(sm, h, selectors, ub), TRUE)

\* parse_selectors (symbol_map, selectors, error): [sm, heap] after the
\* call, its return value, the GError it set, and whether it aborted
parse_selectors(sm, h, selectors, ub) ==
    LET st == parse_run(sm, h, selectors, ub)
    IN  parse_finish(sm, h, st, st.exit = "commit")

-----------------------------------------------------------------------------
(* The ChafaSymbolMap API.                                                 *)

MapIds == {1, 2}

\* chafa_symbol_map_new: g_new, then chafa_symbol_map_init's memset and refs = 1
chafa_symbol_map_new ==
    [desired_symbols |-> NULL, symbols |-> <<>>, n_symbols |-> 0,
     need_rebuild |-> FALSE, refs |-> 1]

EmptyHeap == [x \in {} |-> {}]

Call(op, m, ret, err) ==
    [op |-> op, m |-> m, ret |-> ret, err |-> err, clauses |-> 0, ub |-> FALSE]

\* a call that changes a map in place also records the selection it found
CallOn(op, m, ret, err) ==
    [op |-> op, m |-> m, ret |-> ret, err |-> err, clauses |-> 0, ub |-> FALSE,
     pre |-> Keys(heap, maps[m].desired_symbols)]

NoThreads == UNCHANGED <<pc, seen, owns, destroyed>>

\* the selection of a map, as a set of catalog indices
Selection(m) == Keys(heap, maps[m].desired_symbols)

\* chafa_symbol_map_add_by_tags (symbol_map, tags)
AddByTags(m, tags) ==
    /\ ~crashed
    /\ IF ~(maps[m].refs > 0)
       THEN UNCHANGED <<maps, heap>>
       ELSE LET d == IF maps[m].desired_symbols = NULL
                     THEN g_hash_table_new(heap)
                     ELSE [heap |-> heap, ptr |-> maps[m].desired_symbols]
            IN  /\ heap' = add_by_tags(d.heap, d.ptr, tags)
                /\ maps' = [maps EXCEPT ![m].desired_symbols = d.ptr,
                                        ![m].need_rebuild = TRUE]
    /\ last' = CallOn("add_by_tags", m, TRUE, "none")
    /\ arg' = tags
    /\ UNCHANGED crashed
    /\ NoThreads

\* chafa_symbol_map_remove_by_tags (symbol_map, tags)
RemoveByTags(m, tags) ==
    /\ ~crashed
    /\ IF ~(maps[m].refs > 0)
       THEN UNCHANGED <<maps, heap>>
       ELSE LET d == IF maps[m].desired_symbols = NULL
                     THEN g_hash_table_new(heap)
                     ELSE [heap |-> heap, ptr |-> maps[m].desired_symbols]
            IN  /\ heap' = remove_by_tags(d.heap, d.ptr, tags)
                /\ maps' = [maps EXCEPT ![m].desired_symbols = d.ptr,
                                        ![m].need_rebuild = TRUE]
    /\ last' = CallOn("remove_by_tags", m, TRUE, "none")
    /\ arg' = tags
    /\ UNCHANGED crashed
    /\ NoThreads

\* one outcome r of chafa_symbol_map_apply_selectors (symbol_map, selectors)
ApplyOutcome(m, selectors, r) ==
    /\ maps' = [maps EXCEPT ![m] = r.sm]
    /\ heap' = r.heap
    /\ crashed' = r.crash
    /\ last' = [op |-> "apply_selectors", m |-> m, ret |-> r.result,
                err |-> r.error, clauses |-> r.clauses, ub |-> r.ub]
    /\ arg' = selectors

\* what a call of parse_selectors can leave behind: one outcome, or one per
\* behaviour of the uninitialised iterator when the parse copies a NULL table
ParseOutcomes(sm, h, selectors) ==
    LET r0 == parse_selectors(sm, h, selectors, [crash |-> FALSE, keys |-> {}])
    IN  IF r0.ub
        THEN { parse_selectors(sm, h, selectors, ub) : ub \in IterGarbage }
        ELSE { r0 }

\* chafa_symbol_map_apply_selectors (symbol_map, selectors, error)
ApplySelectors(m, selectors) ==
    /\ ~crashed
    /\ IF ~(maps[m].refs > 0)
       THEN /\ UNCHANGED <<maps, heap, crashed>>
            /\ last' = Call("apply_selectors", m, FALSE, "none")
            /\ arg' = selectors
       ELSE \E r \in ParseOutcomes(maps[m], heap, selectors) :
                ApplyOutcome(m, selectors, r)
    /\ NoThreads

\* the tables some map still points to: storage nothing points to any more
\* cannot be observed and is dropped from the model
Referenced(ms, h) ==
    [x \in DOMAIN h \cap { ms[m].desired_symbols : m \in MapIds } |-> h[x]]

\* a copy that stops after duplicating the table: dest keeps the flag and
\* the count the memcpy gave it
chafa_symbol_map_copy_contents_memcpy(dest, src) ==
    LET copied == maps[src]
        cp == IF copied.desired_symbols # NULL
              THEN copy_hash_table(heap, copied.desired_symbols,
                                   [crash |-> FALSE, keys |-> {}])
              ELSE [heap |-> heap, ptr |-> NULL]
        ms == [maps EXCEPT ![dest] =
                  [copied EXCEPT !.desired_symbols = cp.ptr,
                                 !.symbols = <<>>]]
    IN  [maps |-> ms, heap |-> Referenced(ms, cp.heap)]

\* chafa_symbol_map_copy_contents (dest, src), dest and src distinct structs
chafa_symbol_map_copy_contents(dest, src) ==
    LET copied == maps[src]    \* memcpy (dest, src, sizeof (*dest))
        cp == IF copied.desired_symbols # NULL
              THEN copy_hash_table(heap, copied.desired_symbols,
                                   [crash |-> FALSE, keys |-> {}])
              ELSE [heap |-> heap, ptr |-> NULL]
        ms == [maps EXCEPT ![dest] =
                  [copied EXCEPT !.desired_symbols = cp.ptr,
                                 !.symbols = <<>>,
                                 !.need_rebuild = TRUE,
                                 !.refs = 1]]
    IN  [maps |-> ms, heap |-> Referenced(ms, cp.heap)]

CopyContents(dest, src) ==
    /\ ~crashed
    /\ dest # src
    /\ LET r == chafa_symbol_map_copy_contents(dest, src)
       IN  /\ maps' = r.maps
           /\ heap' = r.heap
    /\ last' = Call("copy_contents", dest, TRUE, "none")
    /\ arg' = src
    /\ UNCHANGED crashed
    /\ NoThreads

\* chafa_symbol_map_prepare (symbol_map)
Prepare(m) ==
    /\ ~crashed
    /\ maps' = [maps EXCEPT ![m] = chafa_symbol_map_prepare(maps[m], heap)]
    /\ last' = [op |-> "prepare", m |-> m, ret |-> TRUE, err |-> "none",
                clauses |-> 0, ub |-> FALSE,
                rebuilt |-> prepare_rebuilds(maps[m])]
    /\ arg' = NULL
    /\ UNCHANGED <<heap, crashed>>
    /\ NoThreads

\* chafa_symbol_map_has_symbol (symbol_map, symbol); a scan that leaves the
\* array reads memory the map does not own: it aborts or returns either value
HasSymbol(m, symbol) ==
    /\ ~crashed
    /\ LET r == chafa_symbol_map_has_symbol(maps[m], symbol)
       IN  IF r.oob
           THEN \/ /\ crashed' = TRUE
                   /\ last' = Call("has_symbol", m, FALSE, "none")
                \/ /\ crashed' = FALSE
                   /\ \E b \in BOOLEAN : last' = Call("has_symbol", m, b, "none")
           ELSE /\ crashed' = FALSE
                /\ last' = Call("has_symbol", m, r.ret, "none")
    /\ arg' = symbol
    /\ UNCHANGED <<maps, heap>>
    /\ NoThreads

-----------------------------------------------------------------------------
(* Inputs.                                                                 *)

w_all      == SymMapping[1].name
w_none     == SymMapping[2].name
w_space    == SymMapping[3].name
w_stipple  == SymMapping[5].name
w_block    == SymMapping[6].name
w_border   == SymMapping[7].name
w_diagonal == SymMapping[8].name
w_dot      == SymMapping[9].name

g_ascii_toupper(c) ==
    IF c \in LowerChars
    THEN Str_upper[CHOOSE i \in DOMAIN Str_lower : Str_lower[i] = c]
    ELSE c

UpperOf(w) == [j \in 1 .. Len(w) |-> g_ascii_toupper(w[j])]
Capitalised(w) == [j \in 1 .. Len(w) |-> IF j = 1 THEN g_ascii_toupper(w[j]) ELSE w[j]]

VocabularyNames == { SymMapping[i].name : i \in DOMAIN SymMapping }

\* every non-empty prefix of a vocabulary name (the names themselves included)
Prefixes ==
    UNION { { SubSeq(w, 1, k) : k \in 1 .. Len(w) } : w \in VocabularyNames }

\* letter tokens handed to the tag lookup
Tokens ==
    Prefixes
    \cup { UpperOf(w) : w \in Prefixes }
    \cup { Capitalised(w) : w \in VocabularyNames }
    \cup { w \o <<"x">> : w \in VocabularyNames }
    \cup { w \o <<"S">> : w \in VocabularyNames }
    \cup { <<"x">>, <<"x","y","z">>, <<"Z">>, <<"e">>, <<"o","t">>, <<"l","o","c","k">> }

\* what follows the token in the string it is a slice of
TokenTails == { <<>>, <<",">>, <<"-","d","o","t">> }

\* selector strings taken from the documentation and the error cases
SampleSelectors ==
    { <<>>,
      <<"+">>,
      <<"-">>,
      <<"-", " ", " ">>,
      <<" ", ",", " ">>,
      w_block \o <<"-">>,
      w_block \o <<",", "+">>,
      <<"b","l","0","c","k">>,
      <<"0">>,
      w_block \o <<",">> \o w_border,
      w_dot \o <<" ">> \o w_space,
      <<"+">> \o w_block \o <<",">> \o w_border \o <<"-">> \o w_dot \o <<",">> \o w_stipple,
      <<"+">> \o w_block,
      <<"-">> \o w_block,
      <<" ", ",", "+">> \o w_block,
      <<"-", " ">> \o w_border \o <<" ">> \o w_space,
      <<"b">>,
      <<"+", "b", "o">>,
      UpperOf(w_border) \o <<",">> \o Capitalised(w_space),
      w_none,
      w_all \o <<"-">> \o w_diagonal,
      <<"+">> \o w_space \o <<",", "0">>,
      w_dot \o <<"-">> \o w_border \o <<"+", "!">>,
      w_block \o <<",">> \o w_block \o <<"x">> }

\* the clause forms strings are generated from
ClauseForms ==
    { <<"+">> \o w_border, <<"-">> \o w_dot, w_block, <<"x">> }

MaxClauses == 2

\* the comma-separated strings of at most n clauses
RECURSIVE ClauseStrings(_)
ClauseStrings(n) ==
    IF n = 0 THEN { <<>> }
    ELSE LET shorter == ClauseStrings(n - 1)
         IN  shorter \cup ClauseForms
                     \cup { s \o <<",">> \o c : s \in shorter \ { <<>> }, c \in ClauseForms }

Selectors == SampleSelectors \cup ClauseStrings(MaxClauses)

\* tag arguments of the programmatic calls
TagArgs ==
    { CHAFA_SYMBOL_TAG_SPACE, CHAFA_SYMBOL_TAG_BLOCK, CHAFA_SYMBOL_TAG_BORDER,
      CHAFA_SYMBOL_TAG_DOT, CHAFA_SYMBOL_TAG_NONE, CHAFA_SYMBOL_TAG_STIPPLE,
      CHAFA_SYMBOL_TAG_DIAGONAL \cup CHAFA_SYMBOL_TAG_SPACE }

-----------------------------------------------------------------------------
(* Specifications.                                                         *)

Threads == {1, 2, 3}

InitData ==
    /\ maps = [m \in MapIds |-> chafa_symbol_map_new]
    /\ heap = EmptyHeap
    /\ crashed = FALSE

InitThreads ==
    /\ pc = [t \in Threads |-> "idle"]
    /\ seen = [t \in Threads |-> 0]
    /\ owns = [t \in Threads |-> 0]
    /\ destroyed = 0

\* One map driven through the selector parser.
InitSel ==
    /\ InitData
    /\ InitThreads
    /\ last = Call("new", 1, TRUE, "none")
    /\ arg = NULL

NextSel ==
    \/ \E s \in Selectors : ApplySelectors(1, s)
    \/ \E t \in TagArgs : AddByTags(1, t)
    \/ \E t \in TagArgs : RemoveByTags(1, t)

SpecSel == InitSel /\ [][NextSel]_vars

\* The tag lookup alone, on every token.
InitTag ==
    /\ InitData
    /\ InitThreads
    /\ last = Call("none", 0, TRUE, "none")
    /\ arg \in { [token |-> w, s |-> w \o tail] : w \in Tokens, tail \in TokenTails }

LookupTag ==
    /\ last.op = "none"
    /\ LET r == parse_symbol_tag(arg.s, 1, Len(arg.token))
       IN  last' = [op |-> "parse_symbol_tag", m |-> 0, ret |-> r.ok,
                    err |-> IF r.ok THEN "none" ELSE "unrecognized",
                    sc |-> r.sc]
    /\ UNCHANGED <<maps, heap, arg, crashed>>
    /\ NoThreads

NextTag == LookupTag

SpecTag == InitTag /\ [][NextTag]_vars

\* Two maps driven through the whole API.
SmallTagArgs == { CHAFA_SYMBOL_TAG_BORDER, CHAFA_SYMBOL_TAG_DOT }

SmallSelectors ==
    { <<>>,
      w_border \o <<"-">> \o w_dot,
      w_dot \o <<",", "x">> }

QueryCodepoints == { chafa_symbols(2).c, chafa_symbols(3).c }

Init ==
    /\ InitData
    /\ InitThreads
    /\ last = Call("new", 1, TRUE, "none")
    /\ arg = NULL

Next ==
    \/ \E m \in MapIds, t \in SmallTagArgs : AddByTags(m, t)
    \/ \E m \in MapIds, t \in SmallTagArgs : RemoveByTags(m, t)
    \/ \E m \in MapIds, s \in SmallSelectors : ApplySelectors(m, s)
    \/ \E d \in MapIds, s \in MapIds : CopyContents(d, s)
    \/ \E m \in MapIds : Prepare(m)
    \/ \E m \in MapIds, c \in QueryCodepoints : HasSymbol(m, c)

Spec == Init /\ [][Next]_vars

\* Two maps of which further references are taken, driven by one thread.
MaxRefs == 2

\* chafa_symbol_map_ref (symbol_map), run to its end by the calling thread
Retain(m) ==
    /\ ~crashed
    /\ maps[m].refs < MaxRefs
    /\ IF ~(maps[m].refs > 0)
       THEN UNCHANGED maps
       ELSE maps' = [maps EXCEPT ![m].refs = @ + 1]
    /\ last' = Call("ref", m, TRUE, "none")
    /\ arg' = NULL
    /\ UNCHANGED <<heap, crashed>>
    /\ NoThreads

OwnSelectors == { w_border \o <<"-">> \o w_dot, w_dot \o <<",", "x">> }

NextOwn ==
    \/ \E m \in MapIds : AddByTags(m, CHAFA_SYMBOL_TAG_BORDER)
    \/ \E m \in MapIds : RemoveByTags(m, CHAFA_SYMBOL_TAG_DOT)
    \/ \E m \in MapIds, s \in OwnSelectors : ApplySelectors(m, s)
    \/ \E d \in MapIds, s \in MapIds : CopyContents(d, s)
    \/ \E m \in MapIds : Prepare(m)
    \/ \E m \in MapIds : Retain(m)

SpecOwn == Init /\ [][NextOwn]_vars

-----------------------------------------------------------------------------
(* The reference count of one map shared by several threads.  A thread     *)
(* calls ref or unref only on a reference it holds; the reference a ref    *)
(* call creates is handed to some thread.                                  *)

MaxRetains == 2

NoData == UNCHANGED <<crashed, last>>

\* chafa_symbol_map_ref: refs = g_atomic_int_get (&symbol_map->refs)
RefGet(t) ==
    /\ pc[t] = "idle"
    /\ owns[t] > 0
    /\ arg.refs < MaxRetains
    /\ seen' = [seen EXCEPT ![t] = maps[1].refs]
    /\ pc' = [pc EXCEPT ![t] = "ref"]
    /\ arg' = [arg EXCEPT !.refs = @ + 1]
    /\ UNCHANGED <<maps, heap, owns, destroyed>>
    /\ NoData

\* chafa_symbol_map_ref: g_return_if_fail (refs > 0); g_atomic_int_inc
RefInc(t, u) ==
    /\ pc[t] = "ref"
    /\ IF ~(seen[t] > 0)
       THEN UNCHANGED <<maps, owns>>
       ELSE /\ maps' = [maps EXCEPT ![1].refs = @ + 1]
            /\ owns' = [owns EXCEPT ![u] = @ + 1]
    /\ pc' = [pc EXCEPT ![t] = "idle"]
    /\ UNCHANGED <<heap, seen, destroyed, arg>>
    /\ NoData

\* chafa_symbol_map_unref: refs = g_atomic_int_get (&symbol_map->refs)
UnrefGet(t) ==
    /\ pc[t] = "idle"
    /\ owns[t] > 0
    /\ seen' = [seen EXCEPT ![t] = maps[1].refs]
    /\ pc' = [pc EXCEPT ![t] = "unref"]
    /\ UNCHANGED <<maps, heap, owns, destroyed, arg>>
    /\ NoData

\* chafa_symbol_map_deinit (symbol_map)
chafa_symbol_map_deinit(sm, h) ==
    IF sm.desired_symbols # NULL
    THEN g_hash_table_unref(h, sm.desired_symbols) ELSE h

\* a decrement that writes back the value read earlier instead of
\* decrementing the shared counter atomically
UnrefDecRacy(t) ==
    /\ pc[t] = "unref"
    /\ IF ~(seen[t] > 0)
       THEN UNCHANGED <<maps, heap, destroyed>>
       ELSE /\ maps' = [maps EXCEPT ![1].refs = seen[t] - 1]
            /\ IF seen[t] - 1 = 0
               THEN /\ heap' = chafa_symbol_map_deinit(maps[1], heap)
                    /\ destroyed' = destroyed + 1
               ELSE UNCHANGED <<heap, destroyed>>
    /\ owns' = [owns EXCEPT ![t] = @ - 1]
    /\ pc' = [pc EXCEPT ![t] = "idle"]
    /\ arg' = [arg EXCEPT !.unrefs = @ + 1]
    /\ UNCHANGED seen
    /\ NoData

\* chafa_symbol_map_unref: g_return_if_fail (refs > 0); then
\* g_atomic_int_dec_and_test, and on zero deinit and g_free
UnrefDec(t) ==
    /\ pc[t] = "unref"
    /\ IF ~(seen[t] > 0)
       THEN UNCHANGED <<maps, heap, destroyed>>
       ELSE /\ maps' = [maps EXCEPT ![1].refs = @ - 1]
            /\ IF maps[1].refs - 1 = 0
               THEN /\ heap' = chafa_symbol_map_deinit(maps[1], heap)
                    /\ destroyed' = destroyed + 1
               ELSE UNCHANGED <<heap, destroyed>>
    /\ owns' = [owns EXCEPT ![t] = @ - 1]
    /\ pc' = [pc EXCEPT ![t] = "idle"]
    /\ arg' = [arg EXCEPT !.unrefs = @ + 1]
    /\ UNCHANGED seen
    /\ NoData

\* the creator holds the one reference chafa_symbol_map_new returns
InitRef ==
    /\ InitData
    /\ pc = [t \in Threads |-> "idle"]
    /\ seen = [t \in Threads |-> 0]
    /\ owns = [t \in Threads |-> IF t = 1 THEN 1 ELSE 0]
    /\ destroyed = 0
    /\ last = Call("new", 1, TRUE, "none")
    /\ arg = [refs |-> 0, unrefs |-> 0]

NextRef ==
    \/ \E t \in Threads : RefGet(t)
    \/ \E t \in Threads, u \in Threads : RefInc(t, u)
    \/ \E t \in Threads : UnrefGet(t)
    \/ \E t \in Threads : UnrefDec(t)

SpecRef == InitRef /\ [][NextRef]_vars

-----------------------------------------------------------------------------
(* The same map when a thread may also call ref through a pointer it only  *)
(* borrows from a holder.  Once the map is freed the struct is released    *)
(* memory: a read of it yields what the allocator left there, and any      *)
(* access to it may fault, which ends every thread.                        *)

\* chafa_symbol_map_ref by any thread: refs = g_atomic_int_get (&symbol_map->refs)
RefGetBorrowed(t) ==
    /\ ~crashed
    /\ pc[t] = "idle"
    /\ arg.refs < MaxRetains
    /\ IF destroyed = 0
       THEN seen' = [seen EXCEPT ![t] = maps[1].refs]
       ELSE \E v \in {0, 1} : seen' = [seen EXCEPT ![t] = v]
    /\ pc' = [pc EXCEPT ![t] = "ref"]
    /\ arg' = [arg EXCEPT !.refs = @ + 1]
    /\ UNCHANGED <<maps, heap, owns, destroyed>>
    /\ NoData

\* an access of a ref or unref call to the freed struct aborts the process
FreedAccess(t) ==
    /\ ~crashed
    /\ destroyed > 0
    /\ \/ pc[t] # "idle"
       \/ arg.refs < MaxRetains
       \/ owns[t] > 0
    /\ crashed' = TRUE
    /\ pc' = [u \in Threads |-> "aborted"]
    /\ UNCHANGED <<maps, heap, last, arg, seen, owns, destroyed>>

NextRace ==
    \/ \E t \in Threads : RefGetBorrowed(t)
    \/ \E t \in Threads, u \in Threads : RefInc(t, u)
    \/ \E t \in Threads : UnrefGet(t)
    \/ \E t \in Threads : UnrefDec(t)
    \/ \E t \in Threads : FreedAccess(t)

SpecRace == InitRef /\ [][NextRace]_vars

-----------------------------------------------------------------------------
(* The statements checked against the model.  The selector grammar and the *)
(* vocabulary are restated here independently of the parser.               *)

\* entriesMatching: the catalog indices whose tags intersect `tags`
Match(tags) == { i \in CatalogIdx : chafa_symbols(i).sc \cap tags # {} }

LowerWord(w) == [j \in 1 .. Len(w) |-> g_ascii_tolower(w[j])]

\* the bitmask the vocabulary gives a name (exact, lower case)
ExactTag(w) ==
    LET i == CHOOSE i \in DOMAIN SymMapping : SymMapping[i].name = w
    IN  SymMapping[i].sc

\* The clauses of a selector string: an optional sign, optional spaces and
\* a run of letters, separated by spaces and commas.  Each clause carries
\* the sign in force: its own, or else the last one before it ("" if none).
RECURSIVE ClausesOf(_, _, _)
ClausesOf(s, p, sign) ==
    LET q  == p + strspn(s, p, Separators)
        sg == IF CharAt(s, q) \in {"+", "-"} THEN CharAt(s, q) ELSE sign
        r  == IF CharAt(s, q) \in {"+", "-"} THEN q + 1 ELSE q
        w  == r + strspn(s, r, {" "})
        n  == strspn(s, w, Letters)
    IN  IF n = 0 THEN <<>>
        ELSE <<[sign |-> sg, own |-> CharAt(s, q) \in {"+", "-"},
                word |-> LowerWord(SubSeq(s, w, w + n - 1))]>>
             \o ClausesOf(s, w + n, sg)

Clauses(s) == ClausesOf(s, 1, "")

\* every clause of s names a tag of the vocabulary
NamesOnly(s) == \A k \in DOMAIN Clauses(s) : Clauses(s)[k].word \in VocabularyNames

\* s is made only of unsigned vocabulary names, commas and spaces
UnsignedNames(s) ==
    /\ Range(s) \subseteq Letters \cup Separators
    /\ Clauses(s) # <<>>
    /\ NamesOnly(s)

ListedTags(s) == UNION { ExactTag(Clauses(s)[k].word) : k \in DOMAIN Clauses(s) }

\* the first thing in s after leading separators is a sign
BeginsWithSign(s) == CharAt(s, 1 + strspn(s, 1, Separators)) \in {"+", "-"}

\* the add/remove clauses of s applied in order to the set sel
RECURSIVE FoldClauses(_, _)
FoldClauses(sel, cls) ==
    IF cls = <<>> THEN sel
    ELSE FoldClauses(IF Head(cls).sign = "-"
                     THEN sel \ Match(ExactTag(Head(cls).word))
                     ELSE sel \cup Match(ExactTag(Head(cls).word)),
                     Tail(cls))

\* the indices matched by some remove clause of s
RemovedBy(s) ==
    UNION { Match(ExactTag(Clauses(s)[k].word)) :
              k \in { j \in DOMAIN Clauses(s) : Clauses(s)[j].sign = "-" } }

\* some sign of s is not followed (after spaces) by a letter
DanglingSign(s) ==
    \E i \in DOMAIN s :
        /\ s[i] \in {"+", "-"}
        /\ CharAt(s, i + 1 + strspn(s, i + 1, {" "})) \notin Letters

\* s holds a character that is no letter, sign or separator
StrayChar(s) == \E i \in DOMAIN s : s[i] \notin Letters \cup Separators \cup {"+", "-"}

Applied == last.op = "apply_selectors"

\* the codepoints of the catalog entries a map has selected
SelectedCodepoints(m) == { chafa_symbols(i).c : i \in Selection(m) }

\* C1: a call of apply_selectors that sets a parse error (syntax error or
\* unrecognized tag) leaves the map's selection, and the table holding it,
\* exactly as before the call, whatever clauses were applied before the error.
C1_AllOrNothing ==
    [][ (last'.op = "apply_selectors" /\ last'.err # "none")
          => /\ maps'[1].desired_symbols = maps[1].desired_symbols
             /\ Selection(1)' = Selection(1) ]_vars

\* a failed call whose first clause was valid left the selection made by
\* an earlier add of SPACE in place
C1_Witness ==
    /\ Applied
    /\ last.err = "unrecognized"
    /\ last.clauses > 0
    /\ arg = w_block \o <<",">> \o w_block \o <<"x">>
    /\ Selection(1) = Match(CHAFA_SYMBOL_TAG_SPACE)

\* C2: apply_selectors returns FALSE whenever it met a syntax error or an
\* unrecognized tag, and TRUE only when the whole string parsed.
C2_ReturnValue ==
    Applied => /\ (last.err # "none" => last.ret = FALSE)
               /\ (last.ret = TRUE => last.err = "none")

\* C3: a selector string with a sign that no tag name follows, or with a
\* character that cannot belong to a tag name, is rejected with an error
\* and the selection is left as it was.
C3_MalformedRejected ==
    [][ (last'.op = "apply_selectors" /\ (DanglingSign(arg') \/ StrayChar(arg')))
          => /\ last'.err # "none"
             /\ Selection(1)' = Selection(1) ]_vars

\* C4: the tag lookup succeeds iff the token equals, ignoring ASCII case,
\* one of the fifteen vocabulary names, and then yields that name's bitmask.
C4_ExactLookup ==
    last.op = "parse_symbol_tag"
      => /\ last.ret = (LowerWord(arg.token) \in VocabularyNames)
         /\ (last.ret => last.sc = ExactTag(LowerWord(arg.token)))

\* C5: after a selector string made only of unsigned tag names, the map
\* holds exactly the entries matching a listed tag, whatever it held
\* before: once prepared, has_symbol is true for the codepoints of those
\* entries and false for every other codepoint.
C5_UnsignedSets ==
    (Applied /\ ~crashed /\ UnsignedNames(arg))
      => /\ last.err = "none"
         /\ Selection(1) = Match(ListedTags(arg))
         /\ \A c \in Codepoints :
               chafa_symbol_map_has_symbol(
                   chafa_symbol_map_prepare(maps[1], heap), c).ret
               = (\E i \in CatalogIdx : /\ chafa_symbols(i).c = c
                                        /\ chafa_symbols(i).sc \cap ListedTags(arg) # {})

\* "block,border" selected the block and border symbols and not the space
C5_Witness ==
    /\ Applied
    /\ arg = w_block \o <<",">> \o w_border
    /\ Selection(1) = {0, 2, 3}
    /\ chafa_symbol_map_has_symbol(
           chafa_symbol_map_prepare(maps[1], heap), chafa_symbols(0).c).ret
    /\ ~chafa_symbol_map_has_symbol(
           chafa_symbol_map_prepare(maps[1], heap), chafa_symbols(1).c).ret

\* C6: after a successful call with a string of tag names whose first
\* clause is signed, the selection is the fold of the string's add and
\* remove clauses over the selection before the call.
C6_RelativeFold ==
    [][ (/\ last'.op = "apply_selectors"
         /\ last'.err = "none"
         /\ ~crashed'
         /\ Clauses(arg') # <<>>
         /\ Clauses(arg')[1].own
         /\ NamesOnly(arg'))
          => Selection(1)' = FoldClauses(Selection(1), Clauses(arg')) ]_vars

\* C7: after a successful call with a string of tag names, if the string
\* begins with a sign every index selected before is still selected unless
\* a remove clause matches it; otherwise the selection is what the same
\* string gives on a new map.
C7_RelativeOrCleared ==
    [][ (/\ last'.op = "apply_selectors"
         /\ last'.err = "none"
         /\ ~crashed'
         /\ NamesOnly(arg'))
          => IF BeginsWithSign(arg')
             THEN \A i \in Selection(1) :
                      i \in Selection(1)' \/ i \in RemovedBy(arg')
             ELSE LET r == parse_selectors(chafa_symbol_map_new, EmptyHeap, arg',
                                           [crash |-> FALSE, keys |-> {}])
                  IN  Selection(1)' = Keys(r.heap, r.sm.desired_symbols) ]_vars

\* C8: copy_contents gives dest a selection equal to src's in a table of
\* its own: a call on one map never changes the other map's selection,
\* table pointer, symbol array or symbol count.
C8_CopyNoAlias ==
    [][ /\ last'.op = "copy_contents"
           => /\ Keys(heap', maps'[last'.m].desired_symbols)
                 = Keys(heap', maps'[arg'].desired_symbols)
              /\ Keys(heap', maps'[arg'].desired_symbols)
                 = Keys(heap, maps[arg'].desired_symbols)
        /\ \A m \in MapIds :
              m # last'.m
                => /\ Selection(m)' = Selection(m)
                   /\ maps'[m] = maps[m] ]_vars

\* a copy of a non-empty selection sits in a second table
C8_Witness ==
    /\ last.op = "copy_contents"
    /\ Selection(last.m) = Selection(arg)
    /\ Cardinality(Selection(arg)) = 2
    /\ maps[last.m].desired_symbols # maps[arg].desired_symbols
    /\ maps[last.m].desired_symbols # NULL

\* codepoints asked about: those of the catalog and some of no entry
ProbeCodepoints == Codepoints \cup {0, 1, 9500, 9599, 10000}

\* C9: on a map whose array is up to date (prepare has run since the last
\* change), has_symbol returns TRUE exactly for the codepoints of the
\* selected catalog entries, and never reads outside the array.
C9_HasSymbolIffSelected ==
    /\ \A m \in MapIds :
          ~maps[m].need_rebuild
            => \A c \in ProbeCodepoints :
                  chafa_symbol_map_has_symbol(maps[m], c)
                  = [ret |-> c \in SelectedCodepoints(m), oob |-> FALSE]
    /\ (last.op = "has_symbol" /\ ~maps[last.m].need_rebuild)
          => /\ ~crashed
             /\ last.ret = (arg \in SelectedCodepoints(last.m))

\* a query found the larger of two stored codepoints
C9_Witness ==
    /\ last.op = "has_symbol"
    /\ ~maps[last.m].need_rebuild
    /\ Cardinality(Selection(last.m)) = 2
    /\ arg = chafa_symbols(2).c
    /\ last.ret = TRUE

AllIdle == \A t \in Threads : pc[t] = "idle"

\* C10: the map is destroyed at most once, exactly when its count is zero
\* and by the unref that took it from one to zero, and it has been
\* destroyed once every holder has released its reference.
C10_DestroyedOnce ==
    /\ destroyed <= 1
    /\ (destroyed = 1) = (maps[1].refs = 0)
    /\ (AllIdle /\ \A t \in Threads : owns[t] = 0) => destroyed = 1
    /\ AllIdle => maps[1].refs = owns[1] + owns[2] + owns[3]

\* two retains and three releases, one per holder, destroyed the map
C10_Witness ==
    /\ destroyed = 1
    /\ arg.refs = 2
    /\ arg.unrefs = 3
    /\ AllIdle

TagCall == last.op \in {"add_by_tags", "remove_by_tags"}

\* C11: add_by_tags leaves the selection equal to the one it found united
\* with the entries matching the tags, remove_by_tags to the one it found
\* minus those entries; repeating the same call leaves the selection as the
\* first call left it, and with no tag at all neither call changes it.
C11_TagSetSemantics ==
    /\ [][ /\ last'.op = "add_by_tags"
               => Selection(1)' = Selection(1) \cup Match(arg')
           /\ last'.op = "remove_by_tags"
               => Selection(1)' = Selection(1) \ Match(arg')
           /\ (/\ last'.op \in {"add_by_tags", "remove_by_tags"}
               /\ last.op = last'.op
               /\ arg = arg')
               => Selection(1)' = Selection(1)
           /\ (/\ last'.op \in {"add_by_tags", "remove_by_tags"}
               /\ arg' = CHAFA_SYMBOL_TAG_NONE)
               => Selection(1)' = Selection(1) ]_vars

\* removing DOT took the dashed line, and nothing else, out of a selection
\* of blocks and borders
C11_Witness ==
    /\ last.op = "remove_by_tags"
    /\ arg = CHAFA_SYMBOL_TAG_DOT
    /\ last.pre = Match(CHAFA_SYMBOL_TAG_BLOCK \cup CHAFA_SYMBOL_TAG_BORDER)
    /\ Selection(1) = {0, 2}

\* C12: when the selection holds no entry matching a tag, add_by_tags with
\* that tag followed at once by remove_by_tags with the same tag leaves the
\* selection the add found, a map that never had a table included.
C12_RoundTrip ==
    [][ (/\ last.op = "add_by_tags"
         /\ last'.op = "remove_by_tags"
         /\ arg' = arg
         /\ last.pre \cap Match(arg) = {})
          => Selection(1)' = last.pre ]_vars

\* BORDER was added to a selection holding only the space and removed
\* again: the space alone is left
C12_Witness ==
    /\ last.op = "remove_by_tags"
    /\ arg = CHAFA_SYMBOL_TAG_BORDER
    /\ last.pre = Match(CHAFA_SYMBOL_TAG_SPACE) \cup Match(CHAFA_SYMBOL_TAG_BORDER)
    /\ Selection(1) = Match(CHAFA_SYMBOL_TAG_SPACE)
    /\ Selection(1) # {}

Mutators == {"add_by_tags", "remove_by_tags", "apply_selectors", "copy_contents"}

\* C13: prepare on a map whose need_rebuild is FALSE changes no field of
\* the map and does not rebuild, so a second prepare straight after a first
\* leaves the same array; a rebuild runs only on a map whose flag was set
\* and clears it, and the flag is set again only by a mutating call on that
\* map, so a mutation lies between any two rebuilds.
C13_PrepareIdempotent ==
    [][ /\ (last'.op = "prepare" /\ ~maps[last'.m].need_rebuild)
              => (maps' = maps /\ ~last'.rebuilt)
        /\ (last'.op = "prepare" /\ last.op = "prepare" /\ last'.m = last.m)
              => maps'[last'.m].symbols = maps[last'.m].symbols
        /\ (last'.op = "prepare" /\ last'.rebuilt)
              => (maps[last'.m].need_rebuild /\ ~maps'[last'.m].need_rebuild)
        /\ \A m \in MapIds :
              (~maps[m].need_rebuild /\ maps'[m].need_rebuild)
                => (last'.m = m /\ last'.op \in Mutators) ]_vars

\* a prepare that found the array of a two-entry selection up to date
C13_Witness ==
    /\ last.op = "prepare"
    /\ ~last.rebuilt
    /\ ~maps[last.m].need_rebuild
    /\ Cardinality(Selection(last.m)) = 2
    /\ Len(maps[last.m].symbols) = 3

\* the array is the selection's catalog entries in strictly ascending
\* codepoint order followed by one entry with codepoint 0
SortedIndexOf(m) ==
    LET idx == maps[m].symbols
        n   == Cardinality(Selection(m))
    IN  /\ Len(idx) = n + 1
        /\ idx[n + 1].c = 0
        /\ { idx[j] : j \in 1 .. n } = { chafa_symbols(i) : i \in Selection(m) }
        /\ \A j \in 1 .. (n - 1) : idx[j].c < idx[j + 1].c

\* C14: whenever need_rebuild is FALSE, right after chafa_symbol_map_new
\* included, the symbol array is the selection's catalog entries sorted
\* ascending by codepoint without duplicates, followed by one sentinel entry
\* with codepoint 0, so it holds one entry more than the selection.
C14_CacheInvariant ==
    \A m \in MapIds : ~maps[m].need_rebuild => SortedIndexOf(m)

\* the same statement for the maps whose array has been allocated
C14_BuiltArrays ==
    \A m \in MapIds :
        (~maps[m].need_rebuild /\ maps[m].symbols # <<>>) => SortedIndexOf(m)

\* the index of the last clause of cls that carries no sign of its own
LastUnsigned(cls) ==
    CHOOSE k \in DOMAIN cls :
        /\ ~cls[k].own
        /\ \A j \in DOMAIN cls : ~cls[j].own => j <= k

\* C15: every unsigned clause, the first or a later one, starts again from
\* an empty set: after a successful call the selection is what the last
\* unsigned clause added, changed by the signed clauses after it.
C15_ResetEveryUnsigned ==
    (/\ Applied
     /\ last.err = "none"
     /\ ~crashed
     /\ NamesOnly(arg)
     /\ \E k \in DOMAIN Clauses(arg) : ~Clauses(arg)[k].own)
      => LET cls == Clauses(arg)
             k   == LastUnsigned(cls)
         IN  Selection(1) = FoldClauses(Match(ExactTag(cls[k].word)),
                                        SubSeq(cls, k + 1, Len(cls)))

\* C15, amended: only a first clause without a sign starts again from an
\* empty set; every later clause without a sign goes on in the mode in
\* force, so after a successful call with such a string the selection is
\* the fold of all its clauses over the empty set.
C15_ResetFirstOnly ==
    (/\ Applied
     /\ last.err = "none"
     /\ ~crashed
     /\ NamesOnly(arg)
     /\ Clauses(arg) # <<>>
     /\ ~Clauses(arg)[1].own)
      => Selection(1) = FoldClauses({}, Clauses(arg))

\* "block,border" kept the block symbols its first clause added: the second
\* clause, though unsigned, did not start again from an empty set
C15_Witness ==
    /\ Applied
    /\ last.err = "none"
    /\ arg = w_block \o <<",">> \o w_border
    /\ last.clauses = 2
    /\ Selection(1) = Match(CHAFA_SYMBOL_TAG_BLOCK) \cup Match(CHAFA_SYMBOL_TAG_BORDER)
    /\ Selection(1) # Match(CHAFA_SYMBOL_TAG_BORDER)

\* C16: whatever the interleaving of the steps of ref and unref calls of
\* concurrent threads, a reference count that has reached 0 stays 0, and a
\* ref call that ends after the map was destroyed creates no reference.
C16_DestructionTerminal ==
    [][ /\ maps[1].refs = 0 => maps'[1].refs = 0
        /\ \A t \in Threads :
              (destroyed > 0 /\ pc[t] = "ref" /\ pc'[t] = "idle")
                => (maps'[1].refs = maps[1].refs /\ owns' = owns) ]_vars

\* C17: right after add_by_tags, remove_by_tags, a successful
\* apply_selectors and copy_contents (on its destination, whose count is
\* then 1, whatever flag and count the source had) need_rebuild is TRUE;
\* only prepare clears the flag; so a clean map's array is that of its
\* present selection (or the map was never changed since it was created).
C17_MutationMarksStale ==
    /\ [][ /\ last'.op \in {"add_by_tags", "remove_by_tags"}
               => maps'[last'.m].need_rebuild
           /\ (last'.op = "apply_selectors" /\ last'.err = "none" /\ ~crashed')
               => maps'[last'.m].need_rebuild
           /\ last'.op = "copy_contents"
               => (maps'[last'.m].need_rebuild /\ maps'[last'.m].refs = 1)
           /\ \A m \in MapIds :
                 (maps[m].need_rebuild /\ ~maps'[m].need_rebuild)
                   => (last'.op = "prepare" /\ last'.m = m)
           /\ \A m \in MapIds :
                 Selection(m)' # Selection(m) => maps'[m].need_rebuild ]_vars
    /\ [](\A m \in MapIds :
            ~maps[m].need_rebuild
              => \/ maps[m].symbols = <<>> /\ Selection(m) = {}
                 \/ SortedIndexOf(m))

\* a copy taken from a clean source with two references is stale and has
\* one reference
C17_Witness ==
    /\ last.op = "copy_contents"
    /\ ~maps[arg].need_rebuild
    /\ maps[arg].refs = 2
    /\ Selection(arg) # {}
    /\ maps[last.m].need_rebuild
    /\ maps[last.m].refs = 1

\* the entries other than the sentinel that a map's array holds
HeldEntries(m) == IF maps[m].symbols = <<>> THEN 0 ELSE Len(maps[m].symbols) - 1

\* C18: in every state, stale or not, n_symbols is at most the number of
\* entries before the sentinel that the symbols array holds (none for a
\* null array), so the scan of has_symbol stays inside the array, also on
\* the destination of copy_contents before it is prepared.
C18_CountWithinArray ==
    /\ \A m \in MapIds : maps[m].n_symbols <= HeldEntries(m)
    /\ \A m \in MapIds : \A c \in ProbeCodepoints :
          ~chafa_symbol_map_has_symbol(maps[m], c).oob
    /\ last.op = "has_symbol" => ~crashed

\* C19: a string of tag names whose first clause is signed, applied to a
\* map that has no table, gives what it gives on an empty selection
\* ("+block" the block symbols, "-block" nothing) and never copies or
\* iterates the absent table.
C19_RelativeOnAbsentTable ==
    [][ (/\ last'.op = "apply_selectors"
         /\ maps[1].desired_symbols = NULL
         /\ Clauses(arg') # <<>>
         /\ Clauses(arg')[1].own
         /\ NamesOnly(arg')
         /\ ~DanglingSign(arg') /\ ~StrayChar(arg'))
          => /\ ~last'.ub
             /\ ~crashed'
             /\ last'.err = "none"
             /\ Selection(1)' = FoldClauses({}, Clauses(arg')) ]_vars

\* C20: a call of apply_selectors that sets a parse error changes nothing
\* of the map: need_rebuild, the symbols array, n_symbols, refs and the
\* table are as before, and has_symbol answers as before.
C20_FailedCallFrame ==
    [][ (last'.op = "apply_selectors" /\ last'.err # "none")
          => LET m == last'.m
             IN  /\ maps'[m].need_rebuild = maps[m].need_rebuild
                 /\ maps'[m].symbols = maps[m].symbols
                 /\ maps'[m].n_symbols = maps[m].n_symbols
                 /\ maps'[m].refs = maps[m].refs
                 /\ maps'[m].desired_symbols = maps[m].desired_symbols
                 /\ Keys(heap', maps'[m].desired_symbols)
                    = Keys(heap, maps[m].desired_symbols)
                 /\ maps' = maps
                 /\ ~crashed'
                 /\ \A c \in ProbeCodepoints :
                       chafa_symbol_map_has_symbol(maps'[m], c)
                       = chafa_symbol_map_has_symbol(maps[m], c) ]_vars

\* a prepared map of two entries after a call that failed on its second
\* clause: still clean, its array still in place
C20_Witness ==
    /\ Applied
    /\ last.err = "unrecognized"
    /\ last.clauses = 1
    /\ ~maps[last.m].need_rebuild
    /\ Len(maps[last.m].symbols) = 3
    /\ chafa_symbol_map_has_symbol(maps[last.m], chafa_symbols(2).c).ret

====
